---- MODULE Spec2Model ----
(***************************************************************************)
(* Lifecycle of one ForwardBaseSpawner (forwardbasespawner/forward.py)     *)
(* and of the hub API handlers that drive it.  The spawner runs on a       *)
(* single asyncio loop: every action below is one run of a coroutine from  *)
(* one suspension point (await) to the next.                               *)
(***************************************************************************)
EXTENDS Integers, Sequences, FiniteSets, TLC

\* ------------------------------------------------------------------ bounds
\* Number of stop() calls, by whichever caller, possibly concurrent.
MaxStops == 2
\* Number of SetupTunnel POST requests (ReportConnectionInfo).
MaxReports == 1
\* Number of poll() calls that may be in flight at once.
MaxPolls == 1
\* The callback scenario: SetupTunnel POST requests, SpawnEvents POST requests.
MaxDeliveries == 2
MaxEvents == 1
\* The polling scenario: poll() calls that may be in flight at once.
MaxConcurrentPolls == 2
MaxCalls == 3
MaxLog == 2
MaxTicks == 2
MaxSaves == 2
MaxSessions == 2

\* ------------------------------------------------------- program constants
\* forward.py:1409  stopwait = time.monotonic() + 5 * self.yield_wait_seconds
StopWaitFactor == 5
\* forward.py:1413  await asyncio.sleep(2 * self.yield_wait_seconds)
SleepFactor == 2
\* forward.py:596  if delta.days: the hours of a day
Day == 24

VARIABLES
    sp,          \* the spawner object's fields
    start_in,    \* what this start() read: its hooks' answers, the response
    start_pc,    \* position of the call_subclass_start task
    start_ret,   \* how start() ended: <<"returned", proto, host, port>>, <<"raised", where>>
    start_wait,  \* time spent in the start-failure wait loop (yield_wait_seconds units)
    stopf,       \* the stop() invocations, in the order of their calls
    poll_pc,     \* position of each poll() call
    poll_ret,    \* what each poll() call returned last
    tun_pc,      \* position of each SetupTunnelAPIHandler.post request
    ev_pc,       \* position of each SpawnEventsAPIHandler.post request
    net,         \* the world outside: forwards, the k8s service
    count,       \* how often each outward call has been made
    ssh,         \* the ssh multiplex connection to the node and its forwards
    k8s,         \* the cluster API and the Services named svc_name it holds
    drv,         \* the ssh_default_forward / ssh_default_svc call under way
    db,          \* the state the hub saved last for the spawner
    now,         \* the wall clock, in hours
    sess         \* the spawner objects of one process and their event lists

\* What the lifecycle scenarios leave alone: the details of the ssh and k8s
\* helpers, the saved state, the other spawner objects
units == <<ssh, k8s, drv, db, now, sess>>

vars == <<sp, start_in, start_pc, start_ret, start_wait, stopf, poll_pc,
          poll_ret, tun_pc, ev_pc, net, count, units>>

\* ----------------------------------------------------------------- values
StopIds == 1 .. MaxStops
\* The poll() calls and the requests of this run
PollIds == DOMAIN poll_pc
ReportIds == DOMAIN tun_pc
EventIds == DOMAIN ev_pc
\* Who calls stop(): a collaborator directly, poll(), the SetupTunnel
\* handler, the SpawnEvents handler
DirectCaller == <<"stop", 0>>
\* poll() calls stop() and then returns its status (forward.py:1469-1471) or 0
\* (forward.py:1480-1482)
PollCallers == {<<"poll", i, r>> : i \in PollIds, r \in {"exited", "0"}}
TunnelCallers == {<<"tunnel", i>> : i \in ReportIds}
EventCallers == {<<"event", i, b>> : i \in EventIds,
                                     b \in {"failed", "cancel"}}

\* port_forward_info = {} (class attribute, forward.py:59)
EmptyInfo == [k \in {} |-> ""]
\* random_port() of the hub; the k8s service name; what the outpost answers
RandomPorts == {40001}
SvcName == "svc"
\* A service address "<proto><host>:<port>"; "" is NoAddress.
NoAddress == [proto |-> "", host |-> "", port |-> 0]
RemoteAddress == [proto |-> "http://", host |-> "remote", port |-> 8080]
Responses == {NoAddress, RemoteAddress}
\* f"{proto}{host}:{port}" (forward.py:1435, 1442, 1448)
Url(proto, host, port) == <<proto, host, port>>
AddressUrl(a) == Url(a.proto, a.host, a.port)

Effects == {"remote_forward", "remote_start", "remote_stop", "ensure_forward",
            "publish", "forward_remove", "svc_remove"}
Bump(what) == [count EXCEPT ![what] = @ + 1]

StartCaller == <<"start", 1>>

\* ----------------------------------------------------- events (dicts)
\* forward.py:1400-1406: the event the start-failure path builds
StartFailedEvent == [kind |-> "dict", failed |-> TRUE, origin |-> StartCaller]
\* An event handed to stop(event=...): a dict with failed=True, or a function
SuppliedEvent(k, e) ==
    [kind |-> IF e = "function" THEN "function" ELSE "dict",
     failed |-> TRUE, origin |-> <<"stop", k>>]
EventArgs == {"none", "dict", "function"}

\* jupyterhub.utils.maybe_future(obj) wraps a non-awaitable obj in a future
\* that is already resolved to obj: awaiting it gives obj back.
maybe_future(obj) == obj

\* forward.py:1508-1511
\*   if event: if callable(event): event = await maybe_future(event)
\*   self.latest_events.append(event)
append_stop_event(s, k, e) ==
    IF e = "none" THEN s
    ELSE LET ev == IF e = "function" THEN maybe_future(SuppliedEvent(k, e))
                   ELSE SuppliedEvent(k, e)
         IN  [s EXCEPT !.latest_events = Append(@, ev)]

\* ------------------------------------------------- spawner methods (pure)
\* A pre-spawn hook that lets every start through.
pre_spawn_unguarded(s) == FALSE

\* forward.py:508  the guard of run_pre_spawn_hook
pre_spawn_guard(s) == s.already_stopped

\* forward.py:1493  the guard of stop()
stop_guard(s) == s.already_stopped

\* forward.py:1519  if self.port_forward_info:
has_forward_info(s) == DOMAIN s.port_forward_info # {}

\* A post-stop hook that never runs.
post_stop_hook_skipped(s) == s

\* A post-stop hook without its already_post_stop_hooked guard.
post_stop_hook_unguarded(s) ==
    [s EXCEPT !.already_post_stop_hooked = TRUE, !.hooks = @ + 1]

\* forward.py:514-524
run_post_stop_hook(s) ==
    IF s.already_post_stop_hooked THEN s
    ELSE [s EXCEPT !.already_post_stop_hooked = TRUE, !.hooks = @ + 1]

\* forward.py:615-623
clear_state(s) ==
    [s EXCEPT !.start_future = "None",
              !.start_future_response = "None",
              !.port_forward_info = EmptyInfo,
              !.already_stopped = FALSE,
              !.already_post_stop_hooked = FALSE,
              !.cancel_event_yielded = FALSE]

\* forward.py:1009-1014: the scheme is stripped, the rest split at ":"
split_service_address(a) == <<a.host, a.port>>

\* forward.py:1423-1426
hub_proto(internal_ssl) == IF internal_ssl THEN "https://" ELSE "http://"

\* A task reference of the spawner follows the task's state unless
\* clear_state has dropped the reference.
Track(ref, state) == IF ref = "None" THEN "None" ELSE state

\* ------------------------------------------------------------------ Init
InitSpawner ==
    [already_stopped |-> FALSE,           \* forward.py:69
     already_post_stop_hooked |-> FALSE,  \* forward.py:70
     call_during_startup |-> TRUE,        \* forward.py:66
     cancel_event_yielded |-> FALSE,      \* forward.py:73
     port_forward_info |-> EmptyInfo,     \* forward.py:59
     latest_events |-> <<>>,              \* forward.py:76
     port |-> 0,
     start_future |-> "None",             \* forward.py:1248
     start_future_response |-> "None",    \* forward.py:1249
     stop_pending |-> FALSE,              \* Spawner._stop_pending of the hub
     saved_info |-> EmptyInfo,            \* port_forward_info in the database
     events |-> EmptyInfo,                \* forward.py:77
     hooks |-> 0]                         \* runs of the post_stop_hook callable

\* A stop() invocation: its caller, position and arguments, and what it met
\* and did: whether port_forward_info was non-empty and which start position
\* it interrupted when it passed the guard, and its outward calls in order.
IdleFrame == [pc |-> "idle", by |-> DirectCaller, cancel |-> FALSE,
              event |-> "none", info |-> FALSE, interrupted |-> "none",
              calls |-> <<>>]

\* What start() has read so far, and its outward calls in order.
InitStartIn == [guarded |-> FALSE, create_remote_forward |-> FALSE,
                ssh_during_startup |-> FALSE, internal_ssl |-> FALSE,
                resp |-> NoAddress, calls |-> <<>>]

\* No helper call is under way, nothing is saved, no other spawner exists.
IdleUnits ==
    /\ ssh = [master |-> FALSE, forwards |-> 0]
    /\ k8s = 0
    /\ drv = <<>>
    /\ db = <<>>
    /\ now = 0
    /\ sess = <<>>

Init ==
    /\ sp = InitSpawner
    /\ start_in = InitStartIn
    /\ start_pc = "idle"
    /\ start_ret = <<>>
    /\ start_wait = 0
    /\ stopf = [k \in StopIds |-> IdleFrame]
    /\ poll_pc = [i \in 1 .. MaxPolls |-> "idle"]
    /\ poll_ret = [i \in 1 .. MaxPolls |-> "none"]
    /\ tun_pc = [i \in 1 .. MaxReports |-> "idle"]
    /\ ev_pc = [i \in {} |-> "idle"]
    /\ net = [tunnel |-> FALSE, svc |-> FALSE, remote_tunnel |-> FALSE]
    /\ count = [e \in Effects |-> 0]
    /\ IdleUnits

handlers == <<poll_pc, poll_ret, tun_pc, ev_pc>>
Called(what) == [start_in EXCEPT !.calls = Append(@, what)]

\* ------------------------------------------------------------ start()
\* The hub calls run_pre_spawn_hook (forward.py:507-512) and then start()
\* (forward.py:1363-1367, 1455-1456), which creates the task.
Start ==
    /\ start_pc = "idle"
    /\ start_in' = [start_in EXCEPT !.guarded = sp.already_stopped]
    /\ IF pre_spawn_guard(sp)
       THEN /\ start_pc' = "rejected"
            /\ start_ret' = <<"raised", "run_pre_spawn_hook">>
            /\ sp' = sp
       ELSE /\ start_pc' = "begin"
            /\ start_ret' = start_ret
            /\ sp' = [sp EXCEPT !.call_during_startup = FALSE,
                                !.start_future_response = "PENDING"]
    /\ UNCHANGED <<start_wait, stopf, handlers, net, count>>
    /\ UNCHANGED units

\* forward.py:1390  self._start_future = asyncio.ensure_future(self._start())
\* The _start task is created here and first runs once this task suspends.
schedule_remote_start(s) == [s EXCEPT !.start_future = "PENDING"]

\* forward.py:1370-1374: port allocation, then the remote forward if
\* get_ssh_create_remote_forward() says so
StartBegin ==
    /\ start_pc = "begin"
    /\ \E p \in RandomPorts, required \in BOOLEAN :
         LET s1 == IF sp.port = 0 THEN [sp EXCEPT !.port = p] ELSE sp
         IN  /\ start_in' = [start_in EXCEPT !.create_remote_forward = required]
             /\ IF required
                THEN /\ sp' = s1
                     /\ start_pc' = "remote_forward"
                ELSE /\ sp' = schedule_remote_start(s1)
                     /\ start_pc' = "start_scheduled"
    /\ UNCHANGED <<start_ret, start_wait, stopf, handlers, net, count>>
    /\ UNCHANGED units

\* A start that goes on to the remote start whatever the remote forward did.
after_remote_forward_ignored(ok) == "start_scheduled"

\* forward.py:1384-1388: a failure raises HTTPError(419) out of the task,
\* otherwise the task goes on to line 1390
after_remote_forward(ok) == IF ok THEN "start_scheduled" ELSE "raised"

\* forward.py:1375-1390: ssh_custom_forward_remote / ssh_default_forward_remote
StartRemoteForward ==
    /\ start_pc = "remote_forward"
    /\ \E ok \in BOOLEAN :
         /\ start_pc' = after_remote_forward(ok)
         /\ IF after_remote_forward(ok) = "raised"
            THEN /\ sp' = [sp EXCEPT !.start_future_response = Track(@, "FINISHED")]
                 /\ start_ret' = <<"raised", "remote_forward">>
            ELSE /\ sp' = schedule_remote_start(sp)
                 /\ start_ret' = start_ret
         /\ net' = IF ok THEN [net EXCEPT !.remote_tunnel = TRUE] ELSE net
         /\ start_in' = Called(IF ok THEN "remote_forward" ELSE "remote_forward_failed")
    /\ count' = Bump("remote_forward")
    /\ UNCHANGED <<start_wait, stopf, handlers>>
    /\ UNCHANGED units

\* forward.py:1390-1392: the _start task runs: the remote start call goes out
StartRemoteCall ==
    /\ start_pc = "start_scheduled"
    /\ start_pc' = "remote_start"
    /\ start_in' = Called("remote_start")
    /\ count' = Bump("remote_start")
    /\ UNCHANGED <<sp, start_ret, start_wait, stopf, handlers, net>>
    /\ UNCHANGED units

\* forward.py:1393-1407: what the except branch records before it waits
record_start_failure(s) ==
    [s EXCEPT !.latest_events = Append(@, StartFailedEvent)]

\* forward.py:1393-1409: the remote start call raised
StartRemoteFails ==
    /\ start_pc = "remote_start"
    /\ sp' = record_start_failure(
                 [sp EXCEPT !.start_future = Track(@, "FINISHED")])
    /\ start_pc' = "fail_wait"
    /\ start_wait' = 0
    /\ UNCHANGED <<start_in, start_ret, stopf, handlers, net, count>>
    /\ UNCHANGED units

\* forward.py:1410-1414: wait for the cancel event, then raise e
StartFailWait ==
    /\ start_pc = "fail_wait"
    /\ IF start_wait < StopWaitFactor /\ ~sp.cancel_event_yielded
       THEN /\ start_wait' = start_wait + SleepFactor
            /\ UNCHANGED <<start_pc, start_ret, sp>>
       ELSE /\ start_wait' = start_wait
            /\ start_pc' = "raised"
            /\ start_ret' = <<"raised", "remote_start">>
            /\ sp' = [sp EXCEPT !.start_future_response = Track(@, "FINISHED")]
    /\ UNCHANGED <<start_in, stopf, handlers, net, count>>
    /\ UNCHANGED units

\* The scenarios with the response's address tested before the forwarding flag.
connectivity_mode_address_first(during_startup, resp) ==
    IF resp # NoAddress THEN "direct"
    ELSE IF during_startup THEN "forward"
    ELSE "wait"

\* The scenarios without the third one: an empty address is split like any.
connectivity_mode_no_wait(during_startup, resp) ==
    IF during_startup THEN "forward" ELSE "direct"

\* forward.py:1428-1448: the three scenarios, in the order the code tests them
connectivity_mode(during_startup, resp) ==
    IF during_startup THEN "forward"
    ELSE IF resp = NoAddress THEN "wait"
    ELSE "direct"

\* forward.py:1415-1453: the remote start call returned resp
StartRemoteReturns ==
    /\ start_pc = "remote_start"
    /\ \E resp \in Responses, during_startup \in BOOLEAN, ssl \in BOOLEAN :
         LET s1 == [sp EXCEPT !.start_future = Track(@, "FINISHED")]
             mode == connectivity_mode(during_startup, resp)
             proto == hub_proto(ssl)
         IN  /\ start_in' = [start_in EXCEPT !.resp = resp,
                                             !.internal_ssl = ssl,
                                             !.ssh_during_startup = during_startup]
             /\ CASE mode = "forward" ->
                    /\ sp' = [s1 EXCEPT !.port_forward_info =
                                           [k \in {"service"} |-> resp]]
                    /\ start_pc' = "forward"
                    /\ start_ret' = start_ret
               [] mode = "wait" ->
                    /\ sp' = [s1 EXCEPT !.start_future_response =
                                           Track(@, "FINISHED")]
                    /\ start_pc' = "returned"
                    /\ start_ret' = <<"returned">> \o Url(proto, SvcName, s1.port)
               [] mode = "direct" ->
                    /\ sp' = [s1 EXCEPT !.start_future_response =
                                           Track(@, "FINISHED"),
                                        !.port = split_service_address(resp)[2]]
                    /\ start_pc' = "returned"
                    /\ start_ret' = <<"returned">> \o
                                      Url(proto, split_service_address(resp)[1],
                                          split_service_address(resp)[2])
    /\ UNCHANGED <<start_wait, stopf, handlers, net, count>>
    /\ UNCHANGED units

\* forward.py:883-895 called from start (1434): the ssh forward
StartForward ==
    /\ start_pc = "forward"
    /\ \E ok \in BOOLEAN :
         /\ start_pc' = IF ok THEN "svc" ELSE "raised"
         /\ start_ret' = IF ok THEN start_ret ELSE <<"raised", "forward">>
         /\ net' = IF ok THEN [net EXCEPT !.tunnel = TRUE] ELSE net
         /\ sp' = IF ok THEN sp
                  ELSE [sp EXCEPT !.start_future_response = Track(@, "FINISHED")]
    /\ start_in' = Called("ensure_forward")
    /\ count' = Bump("ensure_forward")
    /\ UNCHANGED <<start_wait, stopf, handlers>>
    /\ UNCHANGED units

\* forward.py:897-911 called from start (1434-1435, 1451-1453): the service
StartSvc ==
    /\ start_pc = "svc"
    /\ \E ok \in BOOLEAN :
         /\ start_pc' = IF ok THEN "returned" ELSE "raised"
         /\ net' = IF ok THEN [net EXCEPT !.svc = TRUE] ELSE net
         /\ start_ret' = IF ok THEN <<"returned">> \o
                                      Url(hub_proto(start_in.internal_ssl),
                                          SvcName, sp.port)
                         ELSE <<"raised", "svc">>
    /\ sp' = [sp EXCEPT !.start_future_response = Track(@, "FINISHED")]
    /\ start_in' = Called("publish")
    /\ count' = Bump("publish")
    /\ UNCHANGED <<start_wait, stopf, handlers>>
    /\ UNCHANGED units

\* ------------------------------------------------------------- stop()
\* forward.py:1522-1534: cancel the start tasks that are PENDING
cancel_start_function(s) ==
    [s EXCEPT !.start_future_response = IF @ = "PENDING" THEN "CANCELLED" ELSE @,
              !.start_future = IF @ = "PENDING" THEN "CANCELLED" ELSE @]

\* forward.py:1524-1529: whether cancel_start_function interrupts the start
start_is_cancelled(s) ==
    s.start_future_response = "PENDING" \/ s.start_future = "PENDING"

\* The hub's User.stop, awaited by cancel() (forward.py:1536-1544, "we want to
\* cleanup the user object as well"): it ends with the post-stop hook and,
\* unless it is interrupted before, calls clear_state() first.
user_stop(s, cleanup) ==
    [run_post_stop_hook(IF cleanup THEN clear_state(s) ELSE s)
        EXCEPT !.stop_pending = FALSE]

\* stop() invocation k ends (returned "done"/"noop", or "raised") and its
\* caller goes on: poll() runs the post-stop hook and returns
\* (forward.py:1469-1471, 1480-1482), the SetupTunnel handler answers 400
\* (api_setup_tunnel.py:83-88), in the same run of the loop.
Finish(k, s, fr, outcome) ==
    LET f == fr.by
    IN  /\ sp' = IF f \in PollCallers /\ outcome # "raised"
                 THEN run_post_stop_hook(s) ELSE s
        /\ stopf' = [stopf EXCEPT ![k] = [fr EXCEPT !.pc = outcome]]
        /\ poll_pc' = IF f \in PollCallers
                      THEN [poll_pc EXCEPT ![f[2]] = "idle"] ELSE poll_pc
        /\ poll_ret' = IF f \in PollCallers
                       THEN [poll_ret EXCEPT ![f[2]] =
                               IF outcome = "raised" THEN "raised" ELSE f[3]]
                       ELSE poll_ret
        /\ tun_pc' = IF f \in TunnelCallers
                     THEN [tun_pc EXCEPT ![f[2]] =
                             IF outcome = "raised" THEN "raised" ELSE "400"]
                     ELSE tun_pc
        /\ ev_pc' = IF f \in EventCallers
                    THEN [ev_pc EXCEPT ![f[2]] =
                            IF outcome = "raised" THEN "500" ELSE "204:stopped"]
                    ELSE ev_pc

\* The next stop() call is invocation k.
IsNext(k) ==
    /\ stopf[k].pc = "idle"
    /\ \A j \in StopIds : j < k => stopf[j].pc # "idle"

\* forward.py:1492-1503: caller f calls stop(cancel=c, event=e): the guard,
\* then the cancellation of a pending start; stop() is then suspended before
\* its remote stop call returns.
EnterStop(f, c, e, s) ==
    \E k \in StopIds :
      /\ IsNext(k)
      /\ IF stop_guard(s)
         THEN /\ Finish(k, s, [IdleFrame EXCEPT !.by = f, !.cancel = c,
                                                !.event = e], "noop")
              /\ start_pc' = start_pc
         ELSE LET s1 == [s EXCEPT !.already_stopped = TRUE]
                  hit == c /\ start_is_cancelled(s1)
              IN  /\ sp' = IF c THEN cancel_start_function(s1) ELSE s1
                  /\ start_pc' = IF hit THEN "cancelled" ELSE start_pc
                  /\ stopf' = [stopf EXCEPT ![k] =
                                 [pc |-> "remote_stop", by |-> f, cancel |-> c,
                                  event |-> e, info |-> has_forward_info(s),
                                  interrupted |-> IF hit THEN start_pc ELSE "none",
                                  calls |-> <<>>]]
                  /\ poll_pc' = IF f \in PollCallers
                                THEN [poll_pc EXCEPT ![f[2]] = "in_stop"]
                                ELSE poll_pc
                  /\ poll_ret' = poll_ret
                  /\ tun_pc' = IF f \in TunnelCallers
                               THEN [tun_pc EXCEPT ![f[2]] = "in_stop"]
                               ELSE tun_pc
                  /\ ev_pc' = IF f \in EventCallers
                              THEN [ev_pc EXCEPT ![f[2]] = "in_stop"]
                              ELSE ev_pc

\* forward.py:1519-1520: tear down, or return
Proceed(k, s, fr) ==
    IF has_forward_info(s)
    THEN /\ sp' = s
         /\ stopf' = [stopf EXCEPT ![k] = [fr EXCEPT !.pc = "forward_remove"]]
         /\ UNCHANGED handlers
    ELSE Finish(k, s, fr, "done")

\* A collaborator calls stop(cancel=c, event=e).
StopCall(c, e) ==
    /\ EnterStop(DirectCaller, c, e, sp)
    /\ UNCHANGED <<start_in, start_ret, start_wait, net, count>>
    /\ UNCHANGED units

\* A stop() that appends its event only after a remote stop that returned.
stop_without_finally(s, k, e, ok) == IF ok THEN append_stop_event(s, k, e) ELSE s

\* forward.py:1505-1511: try: await self._stop() finally: append the event
stop_finally(s, k, e, ok) == append_stop_event(s, k, e)

\* forward.py:1505-1517: what follows a remote stop call that returned (ok) or
\* raised: the exception leaves stop() once the finally block has run
after_remote_stop(ok, c) ==
    IF ~ok THEN "raised" ELSE IF c THEN "user_stop" ELSE "teardown"

\* forward.py:1505-1519: the remote stop call returns or raises; the event
\* is appended in the finally block; cancel() enters the hub's User.stop,
\* which sets _stop_pending before it suspends.
StopRemote(k) ==
    /\ stopf[k].pc = "remote_stop"
    /\ \E ok \in BOOLEAN :
         LET fr == [stopf[k] EXCEPT !.calls = Append(@, "remote_stop")]
             s1 == stop_finally(sp, k, fr.event, ok)
             next == after_remote_stop(ok, fr.cancel)
         IN  CASE next = "raised" -> Finish(k, s1, fr, "raised")
               [] next = "user_stop" ->
                    /\ sp' = [s1 EXCEPT !.stop_pending = TRUE]
                    /\ stopf' = [stopf EXCEPT ![k] = [fr EXCEPT !.pc = "user_stop"]]
                    /\ UNCHANGED handlers
               [] next = "teardown" -> Proceed(k, s1, fr)
    /\ count' = Bump("remote_stop")
    /\ UNCHANGED <<start_in, start_pc, start_ret, start_wait, net>>
    /\ UNCHANGED units

\* forward.py:1516-1519 with 1536-1552: cancel() returns
StopCancel(k) ==
    /\ stopf[k].pc = "user_stop"
    /\ \E cleanup \in BOOLEAN : Proceed(k, user_stop(sp, cleanup), stopf[k])
    /\ UNCHANGED <<start_in, start_pc, start_ret, start_wait, net, count>>
    /\ UNCHANGED units

\* A removal whose failure leaves run_ssh_forward_remove as an exception.
removal_raising(ok) == IF ok THEN "next" ELSE "raised"

\* forward.py:1223-1233, 1234-1244  try: ... except: self.log.exception(...)
\* a removal that failed is logged and run_ssh_forward_remove goes on
removal_logged(ok) == "next"

\* forward.py:1223-1233: the forward removal; its failure is only logged
StopForwardRemove(k) ==
    /\ stopf[k].pc = "forward_remove"
    /\ \E ok \in BOOLEAN :
         LET fr == [stopf[k] EXCEPT !.calls = Append(@, "forward_remove")]
         IN  /\ net' = IF ok THEN [net EXCEPT !.tunnel = FALSE] ELSE net
             /\ IF removal_logged(ok) = "raised"
                THEN Finish(k, sp, fr, "raised")
                ELSE /\ stopf' = [stopf EXCEPT ![k] = [fr EXCEPT !.pc = "svc_remove"]]
                     /\ UNCHANGED <<sp, handlers>>
    /\ count' = Bump("forward_remove")
    /\ UNCHANGED <<start_in, start_pc, start_ret, start_wait>>
    /\ UNCHANGED units

\* forward.py:1234-1244: the service removal; its failure is only logged
StopSvcRemove(k) ==
    /\ stopf[k].pc = "svc_remove"
    /\ \E ok \in BOOLEAN :
         /\ net' = IF ok THEN [net EXCEPT !.svc = FALSE] ELSE net
         /\ Finish(k, sp, [stopf[k] EXCEPT !.calls = Append(@, "svc_remove")],
                   IF removal_logged(ok) = "raised" THEN "raised" ELSE "done")
    /\ count' = Bump("svc_remove")
    /\ UNCHANGED <<start_in, start_pc, start_ret, start_wait>>
    /\ UNCHANGED units

\* ------------------------------------------------------------- poll()
\* A poll() that takes the restart branch whatever call_during_startup says.
poll_branch_unflagged(s, status, recreate) ==
    IF status # "running" THEN "stop"
    ELSE IF recreate THEN "recreate"
    ELSE "return"

\* forward.py:1464-1484: which branch poll() takes once _poll() has answered
poll_branch(s, status, recreate) ==
    IF ~s.call_during_startup THEN "return"
    ELSE IF status # "running" THEN "stop"
    ELSE IF recreate THEN "recreate"
    ELSE "return"

\* forward.py:1461-1484: poll(), from the answer of _poll() (None, here
\* "running", or an exit status) on; recreate is what
\* get_ssh_recreate_at_start() answers.
Poll(i) ==
    /\ poll_pc[i] = "idle"
    /\ \E status \in {"running", "exited"}, recreate \in BOOLEAN :
         LET branch == poll_branch(sp, status, recreate)
             s1 == [sp EXCEPT !.call_during_startup = FALSE]
         IN  CASE branch = "stop" -> EnterStop(<<"poll", i, status>>, TRUE, "none", s1)
               [] branch = "recreate" ->
                    /\ sp' = s1
                    /\ poll_pc' = [poll_pc EXCEPT ![i] = "recreate"]
                    /\ UNCHANGED <<start_pc, stopf, poll_ret, tun_pc, ev_pc>>
               [] branch = "return" ->
                    /\ sp' = s1
                    /\ poll_ret' = [poll_ret EXCEPT ![i] = status]
                    /\ UNCHANGED <<start_pc, stopf, poll_pc, tun_pc, ev_pc>>
    /\ UNCHANGED <<start_in, start_ret, start_wait, net, count>>
    /\ UNCHANGED units

\* A run_ssh_forward that makes the Service whatever create_svc says.
run_ssh_forward_svc_always(create_svc) == TRUE

\* forward.py:897  if create_svc:
run_ssh_forward_svc(create_svc) == create_svc

\* forward.py:1473-1484: run_ssh_forward(create_svc=False) at hub restart
PollRecreate(i) ==
    /\ poll_pc[i] = "recreate"
    /\ LET svc == run_ssh_forward_svc(FALSE)
       IN  /\ \E ok \in BOOLEAN :
                IF ok
                THEN /\ net' = [net EXCEPT !.tunnel = TRUE,
                                           !.svc = IF svc THEN TRUE ELSE @]
                     /\ poll_pc' = [poll_pc EXCEPT ![i] = "idle"]
                     /\ poll_ret' = [poll_ret EXCEPT ![i] = "running"]
                     /\ UNCHANGED <<sp, start_pc, stopf, tun_pc, ev_pc>>
                ELSE /\ net' = net
                     /\ EnterStop(<<"poll", i, "0">>, TRUE, "none", sp)
           /\ count' = [count EXCEPT !["ensure_forward"] = @ + 1,
                                     !["publish"] = IF svc THEN @ + 1 ELSE @]
    /\ UNCHANGED <<start_in, start_ret, start_wait>>
    /\ UNCHANGED units

\* -------------------------------------- SetupTunnelAPIHandler.post
Bodies == {EmptyInfo, [k \in {"service"} |-> RemoteAddress]}

\* A merge that drops what was reported.
update_ignored(info, body) == info

\* dict.update (api_setup_tunnel.py:63)
update(info, body) ==
    [k \in DOMAIN info \cup DOMAIN body |->
        IF k \in DOMAIN body THEN body[k] ELSE info[k]]

\* api_setup_tunnel.py:64-65 with forward.py:578-581: the state is saved
persist(s) == [s EXCEPT !.saved_info = s.port_forward_info]

\* api_setup_tunnel.py:37  if spawner._stop_pending:
tunnel_rejected(s) == s.stop_pending

\* api_setup_tunnel.py:37-66, 93-97
TunnelPost(i) ==
    /\ tun_pc[i] = "idle"
    /\ \A j \in ReportIds : j < i => tun_pc[j] # "idle"
    /\ \E body \in Bodies :
         IF tunnel_rejected(sp) \/ body = EmptyInfo
         THEN /\ tun_pc' = [tun_pc EXCEPT ![i] = "400"]
              /\ sp' = sp
         ELSE /\ tun_pc' = [tun_pc EXCEPT ![i] = "forward"]
              /\ sp' = persist([sp EXCEPT !.port_forward_info = update(@, body)])
    /\ UNCHANGED <<start_in, start_pc, start_ret, start_wait, stopf, poll_pc,
                   poll_ret, ev_pc, net, count>>
    /\ UNCHANGED units

\* api_setup_tunnel.py:66-88 with forward.py:883-895: the ssh forward
TunnelForward(i) ==
    /\ tun_pc[i] = "forward"
    /\ \E ok \in BOOLEAN :
         IF ok
         THEN /\ net' = [net EXCEPT !.tunnel = TRUE]
              /\ tun_pc' = [tun_pc EXCEPT ![i] = "svc"]
              /\ UNCHANGED <<sp, start_pc, stopf, poll_pc, poll_ret, ev_pc>>
         ELSE /\ net' = net
              /\ EnterStop(<<"tunnel", i>>, TRUE, "dict", sp)
    /\ count' = Bump("ensure_forward")
    /\ UNCHANGED <<start_in, start_ret, start_wait>>
    /\ UNCHANGED units

\* api_setup_tunnel.py:66-92 with forward.py:897-911: the k8s service
TunnelSvc(i) ==
    /\ tun_pc[i] = "svc"
    /\ \E ok \in BOOLEAN :
         IF ok
         THEN /\ net' = [net EXCEPT !.svc = TRUE]
              /\ tun_pc' = [tun_pc EXCEPT ![i] = "204"]
              /\ UNCHANGED <<sp, start_pc, stopf, poll_pc, poll_ret, ev_pc>>
         ELSE /\ net' = net
              /\ EnterStop(<<"tunnel", i>>, TRUE, "dict", sp)
    /\ count' = Bump("publish")
    /\ UNCHANGED <<start_in, start_ret, start_wait>>
    /\ UNCHANGED units

\* ---------------------------------------- SpawnEventsAPIHandler.post
\* A request body: {}, a progress event, an event with failed=True, an
\* event with failed=True whose html_message ends with user_cancel_message
\* (api_events.py:11-13)
EventBodies == {"empty", "progress", "failed", "cancel"}

\* api_events.py:128-151: the event the handler appends is the body it
\* received, with a timestamp
ReportedEvent(i, body) ==
    [kind |-> "dict", failed |-> body \in {"failed", "cancel"},
     origin |-> <<"event", i>>]

\* api_events.py:82-90: what the coroutine function stop_event would
\* return if it were called
CancelEvent(k) == [kind |-> "dict", failed |-> TRUE, origin |-> <<"cancel", k>>]

\* api_events.py:64  spawner.pending == "stop" or spawner.already_stopped
event_ignored(s) == s.stop_pending \/ s.already_stopped

\* A handler without the branch for failed events.
event_route_unfailed(s, body, kept) ==
    IF event_ignored(s) THEN "ignored"
    ELSE IF body = "empty" \/ ~kept \/ s.stop_pending THEN "rejected"
    ELSE "append"

\* api_events.py:64-127: what the handler does with a body; kept is whether
\* run_filter_events left something of the event
event_route(s, body, kept) ==
    IF event_ignored(s) THEN "ignored"
    ELSE IF body = "cancel" THEN "cancel"
    ELSE IF body = "failed" THEN "failed"
    ELSE IF body = "empty" \/ ~kept \/ s.stop_pending THEN "rejected"
    ELSE "append"

\* api_events.py:49-154
EventPost(i) ==
    /\ ev_pc[i] = "idle"
    /\ \A j \in EventIds : j < i => ev_pc[j] # "idle"
    /\ \E body \in EventBodies, kept \in BOOLEAN :
         LET route == event_route(sp, body, kept)
         IN  CASE route = "ignored" ->
                    /\ ev_pc' = [ev_pc EXCEPT ![i] = "204:ignored"]
                    /\ UNCHANGED <<sp, start_pc, stopf, poll_pc, poll_ret, tun_pc>>
               [] route = "cancel" ->
                    EnterStop(<<"event", i, body>>, TRUE, "function", sp)
               [] route = "failed" ->
                    EnterStop(<<"event", i, body>>, TRUE, "dict", sp)
               [] route = "rejected" ->
                    /\ ev_pc' = [ev_pc EXCEPT ![i] = "400"]
                    /\ UNCHANGED <<sp, start_pc, stopf, poll_pc, poll_ret, tun_pc>>
               [] route = "append" ->
                    /\ ev_pc' = [ev_pc EXCEPT ![i] = "204:appended"]
                    /\ sp' = [sp EXCEPT !.latest_events =
                                           Append(@, ReportedEvent(i, body))]
                    /\ UNCHANGED <<start_pc, stopf, poll_pc, poll_ret, tun_pc>>
    /\ UNCHANGED <<start_in, start_ret, start_wait, net, count>>
    /\ UNCHANGED units

\* ------------------------------------------------------- specification
Next ==
    \/ Start
    \/ StartBegin
    \/ StartRemoteForward
    \/ StartRemoteCall
    \/ StartRemoteFails
    \/ StartFailWait
    \/ StartRemoteReturns
    \/ StartForward
    \/ StartSvc
    \/ \E c \in BOOLEAN, e \in {"none", "dict"} : StopCall(c, e)
    \/ \E k \in StopIds : StopRemote(k)
    \/ \E k \in StopIds : StopCancel(k)
    \/ \E k \in StopIds : StopForwardRemove(k)
    \/ \E k \in StopIds : StopSvcRemove(k)
    \/ \E i \in PollIds : Poll(i)
    \/ \E i \in PollIds : PollRecreate(i)
    \/ \E i \in ReportIds : TunnelPost(i)
    \/ \E i \in ReportIds : TunnelForward(i)
    \/ \E i \in ReportIds : TunnelSvc(i)

Spec == Init /\ [][Next]_vars

\* The tunnel scenario: a start and SetupTunnel requests, with the stop()
\* calls the handler makes; no poll(), no other stop().
InitTunnels ==
    /\ sp = InitSpawner
    /\ start_in = InitStartIn
    /\ start_pc = "idle"
    /\ start_ret = <<>>
    /\ start_wait = 0
    /\ stopf = [k \in StopIds |-> IdleFrame]
    /\ poll_pc = [i \in {} |-> "idle"]
    /\ poll_ret = [i \in {} |-> "none"]
    /\ tun_pc = [i \in 1 .. MaxDeliveries |-> "idle"]
    /\ ev_pc = [i \in {} |-> "idle"]
    /\ net = [tunnel |-> FALSE, svc |-> FALSE, remote_tunnel |-> FALSE]
    /\ count = [e \in Effects |-> 0]
    /\ IdleUnits

NextTunnels ==
    \/ Start
    \/ StartBegin
    \/ StartRemoteForward
    \/ StartRemoteCall
    \/ StartRemoteFails
    \/ StartFailWait
    \/ StartRemoteReturns
    \/ StartForward
    \/ StartSvc
    \/ \E k \in StopIds : StopRemote(k)
    \/ \E k \in StopIds : StopCancel(k)
    \/ \E k \in StopIds : StopForwardRemove(k)
    \/ \E k \in StopIds : StopSvcRemove(k)
    \/ \E i \in ReportIds : TunnelPost(i)
    \/ \E i \in ReportIds : TunnelForward(i)
    \/ \E i \in ReportIds : TunnelSvc(i)

SpecTunnels == InitTunnels /\ [][NextTunnels]_vars

\* The events scenario: a start, stop() calls and SpawnEvents requests; no
\* poll(), no SetupTunnel request.
InitEvents ==
    /\ sp = InitSpawner
    /\ start_in = InitStartIn
    /\ start_pc = "idle"
    /\ start_ret = <<>>
    /\ start_wait = 0
    /\ stopf = [k \in StopIds |-> IdleFrame]
    /\ poll_pc = [i \in {} |-> "idle"]
    /\ poll_ret = [i \in {} |-> "none"]
    /\ tun_pc = [i \in {} |-> "idle"]
    /\ ev_pc = [i \in 1 .. MaxEvents |-> "idle"]
    /\ net = [tunnel |-> FALSE, svc |-> FALSE, remote_tunnel |-> FALSE]
    /\ count = [e \in Effects |-> 0]
    /\ IdleUnits

NextEvents ==
    \/ Start
    \/ StartBegin
    \/ StartRemoteForward
    \/ StartRemoteCall
    \/ StartRemoteFails
    \/ StartFailWait
    \/ StartRemoteReturns
    \/ StartForward
    \/ StartSvc
    \/ \E c \in BOOLEAN, e \in {"none", "dict"} : StopCall(c, e)
    \/ \E k \in StopIds : StopRemote(k)
    \/ \E k \in StopIds : StopCancel(k)
    \/ \E k \in StopIds : StopForwardRemove(k)
    \/ \E k \in StopIds : StopSvcRemove(k)
    \/ \E i \in EventIds : EventPost(i)

SpecEvents == InitEvents /\ [][NextEvents]_vars

\* The events scenario with the loop's timers: a start() that sleeps in its
\* start-failure wait (forward.py:1413) is resumed when the sleep is over.
SpecFailWait == InitEvents /\ [][NextEvents]_vars /\ WF_vars(StartFailWait)

\* The restart scenario: the spawner was restored by load_state
\* (forward.py:603-613) with the port_forward_info it had saved, the ssh
\* forward of the old hub process is gone, the Service it made may still be
\* there; poll() calls, some of them concurrent, and a start; stop() is only
\* called by poll().
InitPolls ==
    /\ \E info \in Bodies :
         sp = [InitSpawner EXCEPT !.port_forward_info = info,
                                  !.saved_info = info]
    /\ start_in = InitStartIn
    /\ start_pc = "idle"
    /\ start_ret = <<>>
    /\ start_wait = 0
    /\ stopf = [k \in StopIds |-> IdleFrame]
    /\ poll_pc = [i \in 1 .. MaxConcurrentPolls |-> "idle"]
    /\ poll_ret = [i \in 1 .. MaxConcurrentPolls |-> "none"]
    /\ tun_pc = [i \in {} |-> "idle"]
    /\ ev_pc = [i \in {} |-> "idle"]
    /\ \E svc \in BOOLEAN :
         /\ svc => has_forward_info(sp)
         /\ net = [tunnel |-> FALSE, svc |-> svc, remote_tunnel |-> FALSE]
    /\ count = [e \in Effects |-> 0]
    /\ IdleUnits

NextPolls ==
    \/ Start
    \/ StartBegin
    \/ StartRemoteForward
    \/ StartRemoteCall
    \/ StartRemoteFails
    \/ StartFailWait
    \/ StartRemoteReturns
    \/ StartForward
    \/ StartSvc
    \/ \E k \in StopIds : StopRemote(k)
    \/ \E k \in StopIds : StopCancel(k)
    \/ \E k \in StopIds : StopForwardRemove(k)
    \/ \E k \in StopIds : StopSvcRemove(k)
    \/ \E i \in PollIds : Poll(i)
    \/ \E i \in PollIds : PollRecreate(i)

SpecPolls == InitPolls /\ [][NextPolls]_vars

\* ------------------------------------- ssh_default_forward, ssh_default_svc
\* The helpers run against an ssh multiplex master and a cluster API that
\* answer by their state: the node is reachable or not, a forward request for
\* a binding the master already holds is refused (or, by the master's own
\* choice, accepted without a second binding), a forward request for a port
\* that another process of the hub's host holds is refused whatever is
\* cancelled, a Service that exists gives
\* 409 on create, the API lets the hub create Services or not.
DriverOps == {"forward", "svc"}

\* What the helper scenario leaves alone
lifecycle == <<sp, start_in, start_pc, start_ret, start_wait, stopf, poll_pc,
               poll_ret, tun_pc, ev_pc, net, count>>

IdleDriver == [op |-> "none", pc |-> "idle", cmds |-> <<>>, log |-> <<>>]

\* The helper call under way issues a command and goes to position pc.
Issue(cmd, pc) == [drv EXCEPT !.cmds = Append(@, cmd), !.pc = pc]

\* The helper call under way ends.
EndCall(cmd, res) ==
    [op |-> "none", pc |-> "idle", cmds |-> <<>>,
     log |-> Append(drv.log, [op |-> drv.op, res |-> res,
                              cmds |-> Append(drv.cmds, cmd)])]

\* The hub calls ssh_default_forward or ssh_default_svc (run_ssh_forward,
\* forward.py:881-911).
DriverCall ==
    /\ drv.pc = "idle"
    /\ Len(drv.log) < MaxCalls
    /\ \E op \in DriverOps :
         drv' = [drv EXCEPT !.op = op,
                            !.pc = IF op = "forward" THEN "check" ELSE "read"]
    /\ UNCHANGED <<ssh, k8s>>
    /\ UNCHANGED <<lifecycle, db, now, sess>>

\* An ssh_default_forward that connects whatever the check answered.
after_check_unread(rc) == "connect"

\* forward.py:1043-1047  ssh -O check; if returncode != 0: connect
after_check(rc) == IF rc = 0 THEN "forward" ELSE "connect"

\* forward.py:1043-1047: is the multiplex connection up?
ForwardCheck ==
    /\ drv.pc = "check"
    /\ LET next == after_check(IF ssh.master THEN 0 ELSE 255)
       IN  drv' = IF next = "raised" THEN EndCall("check", "raised")
                  ELSE Issue("check", next)
    /\ UNCHANGED <<ssh, k8s>>
    /\ UNCHANGED <<lifecycle, db, now, sess>>

\* forward.py:1048-1062: the connection is created; the command returns, or
\* runs into its timeout, after which the check is repeated
ForwardConnect ==
    /\ drv.pc = "connect"
    /\ \E timed_out \in BOOLEAN :
         /\ ssh' = [ssh EXCEPT !.master = ssh.reachable]
         /\ drv' = IF timed_out THEN Issue("connect", "recheck")
                   ELSE IF ssh.reachable THEN Issue("connect", "forward")
                   ELSE EndCall("connect", "raised")
    /\ UNCHANGED k8s
    /\ UNCHANGED <<lifecycle, db, now, sess>>

\* forward.py:1055-1062: the check after a connect that timed out
ForwardRecheck ==
    /\ drv.pc = "recheck"
    /\ drv' = IF ssh.master THEN Issue("check", "forward")
              ELSE EndCall("check", "raised")
    /\ UNCHANGED <<ssh, k8s>>
    /\ UNCHANGED <<lifecycle, db, now, sess>>

\* What the master answers to ssh -O forward, and the bindings it then holds
forward_request(s) ==
    IF ~s.master \/ s.busy THEN <<255, s>>
    ELSE IF s.forwards = 0 THEN <<0, [s EXCEPT !.forwards = 1]>>
    ELSE IF s.duplicate = "accepted" THEN <<0, s>>
    ELSE <<255, s>>

\* What the master answers to ssh -O cancel, and the bindings it then holds
cancel_request(s) ==
    IF s.master /\ s.forwards > 0 THEN <<0, [s EXCEPT !.forwards = @ - 1]>>
    ELSE <<255, s>>

\* An ssh_default_forward that gives up when the first forward request fails.
after_forward_no_retry(rc) == IF rc = 0 THEN "returned" ELSE "raised"

\* forward.py:1078-1080  if returncode != 0: cancel the old forward, retry
after_forward(rc) == IF rc = 0 THEN "returned" ELSE "cancel"

\* forward.py:1064-1078: the forward request
ForwardCreate ==
    /\ drv.pc = "forward"
    /\ LET ans == forward_request(ssh)
           next == after_forward(ans[1])
       IN  /\ ssh' = ans[2]
           /\ drv' = IF next = "cancel" THEN Issue("forward", "cancel")
                     ELSE EndCall("forward", next)
    /\ UNCHANGED k8s
    /\ UNCHANGED <<lifecycle, db, now, sess>>

\* forward.py:1080-1089: the cancel of an old forward; its answer is ignored
ForwardCancel ==
    /\ drv.pc = "cancel"
    /\ ssh' = cancel_request(ssh)[2]
    /\ drv' = Issue("cancel", "retry")
    /\ UNCHANGED k8s
    /\ UNCHANGED <<lifecycle, db, now, sess>>

\* An ssh_default_forward that does not look at what its retry returned.
after_retry_unchecked(rc) == "returned"

\* forward.py:1092-1095  if returncode != 0: raise Exception(...)
after_retry(rc) == IF rc = 0 THEN "returned" ELSE "raised"

\* forward.py:1091-1095: the second forward request
ForwardRetry ==
    /\ drv.pc = "retry"
    /\ LET ans == forward_request(ssh)
       IN  /\ ssh' = ans[2]
           /\ drv' = EndCall("forward", after_retry(ans[1]))
    /\ UNCHANGED k8s
    /\ UNCHANGED <<lifecycle, db, now, sess>>

\* forward.py:1163-1166: the hub's own Service is read for its selector
SvcRead ==
    /\ drv.pc = "read"
    /\ drv' = IF k8s.api = "down" THEN EndCall("read", "raised")
              ELSE Issue("read", "create")
    /\ UNCHANGED <<ssh, k8s>>
    /\ UNCHANGED <<lifecycle, db, now, sess>>

\* What the API answers to create_namespaced_service, and what it then holds
create_request(c) ==
    IF c.api # "ok" THEN <<403, c>>
    ELSE IF c.services > 0 THEN <<409, c>>
    ELSE <<201, [c EXCEPT !.services = 1]>>

\* What the API answers to delete_namespaced_service, and what it then holds
delete_request(c) ==
    IF c.api # "ok" THEN <<403, c>>
    ELSE IF c.services = 0 THEN <<404, c>>
    ELSE <<200, [c EXCEPT !.services = @ - 1]>>

\* An ssh_default_svc that raises whatever the create failure is.
after_create_no_replace(status) == IF status = 201 THEN "returned" ELSE "raised"

\* forward.py:1194-1207  except ApiException: if 409: delete, create; else raise
after_create(status) ==
    IF status = 201 THEN "returned"
    ELSE IF status = 409 THEN "delete"
    ELSE "raised"

\* forward.py:1194-1197: the Service is created
SvcCreate ==
    /\ drv.pc = "create"
    /\ LET ans == create_request(k8s)
           next == after_create(ans[1])
       IN  /\ k8s' = ans[2]
           /\ drv' = IF next = "delete" THEN Issue("create", "delete")
                     ELSE EndCall("create", next)
    /\ UNCHANGED ssh
    /\ UNCHANGED <<lifecycle, db, now, sess>>

\* forward.py:1201-1203: the Service in the way is deleted
SvcDelete ==
    /\ drv.pc = "delete"
    /\ LET ans == delete_request(k8s)
       IN  /\ k8s' = ans[2]
           /\ drv' = IF ans[1] = 200 THEN Issue("delete", "recreate")
                     ELSE EndCall("delete", "raised")
    /\ UNCHANGED ssh
    /\ UNCHANGED <<lifecycle, db, now, sess>>

\* forward.py:1204-1206: the Service is created again
SvcRecreate ==
    /\ drv.pc = "recreate"
    /\ LET ans == create_request(k8s)
       IN  /\ k8s' = ans[2]
           /\ drv' = EndCall("create", IF ans[1] = 201 THEN "returned" ELSE "raised")
    /\ UNCHANGED ssh
    /\ UNCHANGED <<lifecycle, db, now, sess>>

\* The lifecycle is at rest while the helpers run.
LifecycleIdle ==
    /\ sp = InitSpawner
    /\ start_in = InitStartIn
    /\ start_pc = "idle"
    /\ start_ret = <<>>
    /\ start_wait = 0
    /\ stopf = [k \in StopIds |-> IdleFrame]
    /\ poll_pc = [i \in {} |-> "idle"]
    /\ poll_ret = [i \in {} |-> "none"]
    /\ tun_pc = [i \in {} |-> "idle"]
    /\ ev_pc = [i \in {} |-> "idle"]
    /\ net = [tunnel |-> FALSE, svc |-> FALSE, remote_tunnel |-> FALSE]
    /\ count = [e \in Effects |-> 0]

\* The helper scenario: calls of ssh_default_forward and ssh_default_svc, one
\* after the other, on a node and a cluster found in any state.
InitDriver ==
    /\ LifecycleIdle
    /\ \E m \in BOOLEAN, f \in {0, 1}, r \in BOOLEAN,
          d \in {"refused", "accepted"}, b \in BOOLEAN :
         /\ f = 1 => m
         /\ m => r
         /\ b => f = 0
         /\ ssh = [master |-> m, forwards |-> f, reachable |-> r,
                   duplicate |-> d, busy |-> b]
    /\ \E n \in {0, 1}, a \in {"ok", "create_denied", "down"} :
         k8s = [services |-> n, api |-> a]
    /\ drv = IdleDriver
    /\ db = <<>>
    /\ now = 0
    /\ sess = <<>>

NextDriver ==
    \/ DriverCall
    \/ ForwardCheck
    \/ ForwardConnect
    \/ ForwardRecheck
    \/ ForwardCreate
    \/ ForwardCancel
    \/ ForwardRetry
    \/ SvcRead
    \/ SvcCreate
    \/ SvcDelete
    \/ SvcRecreate

SpecDriver == InitDriver /\ [][NextDriver]_vars

\* ------------- ssh_default_forward_remote, ssh_default_forward_remote_remove
\* The helpers of the remote forward run against the multiplex connection to
\* the remote node (ControlPath /tmp/control_remote_<node>, forward.py:969)
\* and the listener that the node starts and stops on request.
RemoteOps == {"forward_remote", "forward_remote_remove"}

\* forward.py:1116-1131: the names ssh_default_forward_remote has bound when
\* it reaches line 1138
RemoteLocals ==
    {"user", "node", "cmd", "check_cmd", "returncode", "out", "err",
     "connect_cmd"}

\* Evaluating a name: a name that is not bound raises NameError
bound(name) == name \in RemoteLocals

\* What the node answers to the start command, and its listener afterwards
remote_start_request(s) ==
    IF s.master THEN <<217, [s EXCEPT !.listening = TRUE]>> ELSE <<255, s>>

\* What the node answers to the stop command, and its listener afterwards
remote_stop_request(s) ==
    IF s.master THEN <<0, [s EXCEPT !.listening = FALSE]>> ELSE <<255, s>>

\* forward.py:1140  if returncode != 217: raise Exception(...)
after_remote_start(rc) == IF rc = 217 THEN "returned" ELSE "raised"

\* The hub calls ssh_default_forward_remote (forward.py:1383) or
\* ssh_default_forward_remote_remove.
RemoteCall ==
    /\ drv.pc = "idle"
    /\ Len(drv.log) < MaxCalls
    /\ \E op \in RemoteOps :
         drv' = [drv EXCEPT !.op = op,
                            !.pc = IF op = "forward_remote" THEN "remote_check"
                                   ELSE "remote_stop"]
    /\ UNCHANGED <<ssh, k8s>>
    /\ UNCHANGED <<lifecycle, db, now, sess>>

\* forward.py:1116-1121: is the multiplex connection to the remote node up?
RemoteCheck ==
    /\ drv.pc = "remote_check"
    /\ drv' = IF after_check(IF ssh.master THEN 0 ELSE 255) = "connect"
              THEN Issue("check", "remote_connect")
              ELSE Issue("check", "remote_start")
    /\ UNCHANGED <<ssh, k8s>>
    /\ UNCHANGED <<lifecycle, db, now, sess>>

\* forward.py:1122-1136: the connection is created; the command returns, or
\* runs into its timeout and the state of the connection is asked for again
RemoteConnect ==
    /\ drv.pc = "remote_connect"
    /\ \E timed_out \in BOOLEAN :
         /\ ssh' = [ssh EXCEPT !.master = ssh.reachable]
         /\ drv' = IF timed_out THEN Issue("connect", "remote_recheck")
                   ELSE IF ssh.reachable THEN Issue("connect", "remote_start")
                   ELSE EndCall("connect", "raised")
    /\ UNCHANGED k8s
    /\ UNCHANGED <<lifecycle, db, now, sess>>

\* forward.py:1130-1136: the state of the connection after the timeout
RemoteRecheck ==
    /\ drv.pc = "remote_recheck"
    /\ drv' = IF ssh.master THEN Issue("check", "remote_start")
              ELSE EndCall("check", "raised")
    /\ UNCHANGED <<ssh, k8s>>
    /\ UNCHANGED <<lifecycle, db, now, sess>>

\* forward.py:1138-1143: start_cmd.extend(...) evaluates the name start_cmd
\* first; the start command is run once the list is built, and its
\* returncode decides
RemoteStart ==
    /\ drv.pc = "remote_start"
    /\ IF ~bound("start_cmd")
       THEN /\ drv' = [op |-> "none", pc |-> "idle", cmds |-> <<>>,
                       log |-> Append(drv.log, [op |-> drv.op, res |-> "raised",
                                                cmds |-> drv.cmds])]
            /\ ssh' = ssh
       ELSE LET ans == remote_start_request(ssh)
            IN  /\ ssh' = ans[2]
                /\ drv' = EndCall("start", after_remote_start(ans[1]))
    /\ UNCHANGED k8s
    /\ UNCHANGED <<lifecycle, db, now, sess>>

\* forward.py:1097-1105: the service address is split, which needs
\* port_forward_info["service"], then the stop command is run, whose answer
\* is not read
RemoteStop ==
    /\ drv.pc = "remote_stop"
    /\ IF "service" \in DOMAIN sp.port_forward_info
       THEN /\ ssh' = remote_stop_request(ssh)[2]
            /\ drv' = EndCall("stop", "returned")
       ELSE /\ ssh' = ssh
            /\ drv' = [op |-> "none", pc |-> "idle", cmds |-> <<>>,
                       log |-> Append(drv.log, [op |-> drv.op, res |-> "raised",
                                                cmds |-> drv.cmds])]
    /\ UNCHANGED k8s
    /\ UNCHANGED <<lifecycle, db, now, sess>>

\* The remote scenario: calls of the two helpers, one after the other, with
\* the remote node found in any state.
InitRemote ==
    /\ \E info \in Bodies : sp = [InitSpawner EXCEPT !.port_forward_info = info]
    /\ start_in = InitStartIn
    /\ start_pc = "idle"
    /\ start_ret = <<>>
    /\ start_wait = 0
    /\ stopf = [k \in StopIds |-> IdleFrame]
    /\ poll_pc = [i \in {} |-> "idle"]
    /\ poll_ret = [i \in {} |-> "none"]
    /\ tun_pc = [i \in {} |-> "idle"]
    /\ ev_pc = [i \in {} |-> "idle"]
    /\ net = [tunnel |-> FALSE, svc |-> FALSE, remote_tunnel |-> FALSE]
    /\ count = [e \in Effects |-> 0]
    /\ \E m \in BOOLEAN, r \in BOOLEAN, l \in BOOLEAN :
         /\ m => r
         /\ ssh = [master |-> m, reachable |-> r, listening |-> l]
    /\ k8s = 0
    /\ drv = IdleDriver
    /\ db = <<>>
    /\ now = 0
    /\ sess = <<>>

NextRemote ==
    \/ RemoteCall
    \/ RemoteCheck
    \/ RemoteConnect
    \/ RemoteRecheck
    \/ RemoteStart
    \/ RemoteStop

SpecRemote == InitRemote /\ [][NextRemote]_vars

\* ------------------------------------------------ get_state, load_state
\* An event as far as get_state reads it: its html_message carries the
\* time it was built at ("%Y_%m_%d %H:%M:%S.%f", here <<hour>>), or carries
\* no such text (<<>>).
Event(stamp) == [html_message |-> stamp]
NoTime == <<>>

\* The groups of self.events in the order the dict holds them
KeyOrder == <<"previous", "latest">>

\* dict[key] = value; del dict[key]
Put(d, key, value) ==
    [k \in DOMAIN d \cup {key} |-> IF k = key THEN value ELSE d[k]]
Del(d, key) == [k \in DOMAIN d \ {key} |-> d[k]]

\* forward.py:731-738  re.search(pattern, message).group(): the text of the
\* time; where the pattern is not found, match is None and .group() raises
\* an AttributeError
event_time_found(event) == event.html_message # NoTime
get_event_time(event) == event.html_message[1]

\* timedelta.days: whole days, rounded down
days(delta) == delta \div Day

\* forward.py:593-596  delta = now - dtime; if delta.days:
is_stale(stime, t) == days(t - stime) # 0

\* forward.py:588-599: the loop over the groups; a group that is empty is
\* deleted, a group whose first event is a day old is deleted, a first event
\* without a time ends the loop with an exception.
RECURSIVE prune(_, _, _)
prune(ev, keys, t) ==
    IF keys = <<>> THEN [events |-> ev, raised |-> FALSE]
    ELSE LET key == Head(keys)
         IN  IF key \notin DOMAIN ev THEN prune(ev, Tail(keys), t)
             ELSE IF ev[key] = <<>> THEN prune(Del(ev, key), Tail(keys), t)
             ELSE IF ~event_time_found(ev[key][1])
                  THEN [events |-> ev, raised |-> TRUE]
             ELSE IF is_stale(get_event_time(ev[key][1]), t)
                  THEN prune(Del(ev, key), Tail(keys), t)
             ELSE prune(ev, Tail(keys), t)

\* forward.py:583  if self.events:
has_events(s) == DOMAIN s.events # {}

\* forward.py:578-601: the spawner afterwards, whether get_state raised, and
\* the state it returned
get_state(s, t) ==
    LET base == [port_forward_info |-> s.port_forward_info, port |-> s.port]
    IN  IF ~has_events(s)
        THEN [s |-> s, raised |-> FALSE, state |-> base]
        ELSE LET r == prune(Put(s.events, "latest", s.latest_events), KeyOrder, t)
             IN  [s |-> [s EXCEPT !.events = r.events],
                  raised |-> r.raised,
                  state |-> Put(base, "events", r.events)]

\* forward.py:603-613
load_state(s, state) ==
    LET s1 == IF "port_forward_info" \in DOMAIN state
              THEN [s EXCEPT !.port_forward_info = state.port_forward_info]
              ELSE s
        s2 == IF "events" \in DOMAIN state
              THEN [s1 EXCEPT !.events = state.events,
                              !.latest_events =
                                 IF "latest" \in DOMAIN state.events
                                 THEN state.events["latest"] ELSE @]
              ELSE s1
    IN  IF "port" \in DOMAIN state THEN [s2 EXCEPT !.port = state.port] ELSE s2

\* The clock advances by two thirds of a day.
Tick ==
    /\ now < MaxTicks * ((2 * Day) \div 3)
    /\ now' = now + (2 * Day) \div 3
    /\ UNCHANGED <<lifecycle, ssh, k8s, drv, db, sess>>

\* forward.py:1407, 1511, api_events.py:129-151: an event is appended to
\* latest_events, with the time of the clock in its html_message or, as
\* api_events.py:136-137 allows, without one.
AppendEvent ==
    /\ Len(sp.latest_events) < MaxLog
    /\ \E stamp \in {<<now>>, NoTime} :
         sp' = [sp EXCEPT !.latest_events = Append(@, Event(stamp))]
    /\ UNCHANGED <<start_in, start_pc, start_ret, start_wait, stopf, handlers,
                   net, count, units>>

\* The hub saves the spawner's state (get_state).
SaveState ==
    /\ db.saves < MaxSaves
    /\ LET r == get_state(sp, now)
       IN  /\ sp' = r.s
           /\ db' = IF r.raised
                     THEN [db EXCEPT !.saves = @ + 1, !.raised = TRUE]
                     ELSE [saves |-> db.saves + 1, raised |-> FALSE,
                           saved |-> TRUE, loaded |-> FALSE,
                           state |-> r.state]
    /\ UNCHANGED <<start_in, start_pc, start_ret, start_wait, stopf, handlers,
                   net, count, ssh, k8s, drv, now, sess>>

\* The hub restarts: a new spawner object loads the state saved last.
LoadState ==
    /\ db.saved
    /\ sp' = load_state(InitSpawner, db.state)
    /\ db' = [db EXCEPT !.loaded = TRUE]
    /\ UNCHANGED <<start_in, start_pc, start_ret, start_wait, stopf, handlers,
                   net, count, ssh, k8s, drv, now, sess>>

\* The groups a spawner may hold when the scenario begins: none, or what an
\* earlier load_state gave it.
StoredGroups ==
    {EmptyInfo,
     [k \in {"previous"} |-> <<>>],
     [k \in {"previous"} |-> <<Event(<<0>>)>>],
     [k \in {"previous"} |-> <<Event(NoTime)>>],
     [k \in {"latest"} |-> <<Event(<<0>>)>>]}

\* The state scenario: events are appended, time passes, the state is saved
\* and loaded.
InitState ==
    /\ \E ev \in StoredGroups, info \in Bodies, p \in {0} \cup RandomPorts :
         sp = [InitSpawner EXCEPT
                 !.events = ev,
                 !.latest_events = IF "latest" \in DOMAIN ev
                                   THEN ev["latest"] ELSE <<>>,
                 !.port_forward_info = info,
                 !.port = p]
    /\ start_in = InitStartIn
    /\ start_pc = "idle"
    /\ start_ret = <<>>
    /\ start_wait = 0
    /\ stopf = [k \in StopIds |-> IdleFrame]
    /\ poll_pc = [i \in {} |-> "idle"]
    /\ poll_ret = [i \in {} |-> "none"]
    /\ tun_pc = [i \in {} |-> "idle"]
    /\ ev_pc = [i \in {} |-> "idle"]
    /\ net = [tunnel |-> FALSE, svc |-> FALSE, remote_tunnel |-> FALSE]
    /\ count = [e \in Effects |-> 0]
    /\ ssh = [master |-> FALSE, forwards |-> 0]
    /\ k8s = 0
    /\ drv = <<>>
    /\ db = [saves |-> 0, raised |-> FALSE, saved |-> FALSE, loaded |-> FALSE,
             state |-> EmptyInfo]
    /\ now = 0
    /\ sess = <<>>

NextState ==
    \/ Tick
    \/ AppendEvent
    \/ SaveState
    \/ LoadState

SpecState == InitState /\ [][NextState]_vars

\* -------------------------------------------- the spawners of one process
\* latest_events is a class attribute (forward.py:76): a spawner object has
\* a list of its own only once load_state has assigned one (forward.py:611).
\* sess.latest_events[s] names the list object that spawner s reaches as
\* self.latest_events, sess.heap holds the list objects.
Sessions == 1 .. MaxSessions
ClassList == 0
AppendSites == {"api_events.py:151", "forward.py:1407", "forward.py:1511"}

\* An event appended for spawner s at one of the three places
SessionEvent(s, site) == [session |-> s, site |-> site]

\* spawner.latest_events, as SpawnEventsAPIHandler.get returns it
\* (api_events.py:31)
Snapshot(s) == sess.heap[sess.latest_events[s]]

\* self.latest_events.append(event) on spawner s
list_append(ss, s, event) ==
    [ss EXCEPT !.heap[ss.latest_events[s]] = Append(@, event)]

\* api_events.py:151, forward.py:1407, forward.py:1511: an event is appended
\* for spawner s
SessionAppend(s) ==
    /\ Len(Snapshot(s)) < MaxLog
    /\ \E site \in AppendSites :
         sess' = list_append(sess, s, SessionEvent(s, site))
    /\ UNCHANGED <<lifecycle, ssh, k8s, drv, db, now>>

\* forward.py:608-611: spawner s, just created, loads a state that holds
\* events: it gets the stored list as its own
SessionLoad(s) ==
    /\ sess.latest_events[s] = ClassList
    /\ \E stored \in {<<>>, <<SessionEvent(s, "api_events.py:151")>>} :
         sess' = [latest_events |-> [sess.latest_events EXCEPT ![s] = s],
                  heap |-> [sess.heap EXCEPT ![s] = stored]]
    /\ UNCHANGED <<lifecycle, ssh, k8s, drv, db, now>>

\* The sessions scenario: the spawners of one hub process, their events.
InitSessions ==
    /\ LifecycleIdle
    /\ ssh = [master |-> FALSE, forwards |-> 0]
    /\ k8s = 0
    /\ drv = <<>>
    /\ db = <<>>
    /\ now = 0
    /\ sess = [latest_events |-> [s \in Sessions |-> ClassList],
               heap |-> [id \in {ClassList} \cup Sessions |-> <<>>]]

NextSessions ==
    \/ \E s \in Sessions : SessionAppend(s)
    \/ \E s \in Sessions : SessionLoad(s)

SpecSessions == InitSessions /\ [][NextSessions]_vars

\* ------------------------------- the port_forward_info of the spawners
\* port_forward_info is a class attribute (forward.py:59): a spawner object
\* has a dict of its own only once start() (forward.py:1433), load_state
\* (forward.py:607) or clear_state (forward.py:620) has assigned one.
\* sess.port_forward_info[s] names the dict object that spawner s reaches as
\* self.port_forward_info, sess.heap holds the dict objects, sess.did[s] is
\* what has been done for spawner s, sess.stop[s] how its stop() ended.
SessionBody(s) ==
    [k \in {"service"} |-> [RemoteAddress EXCEPT !.port = @ + s]]

\* spawner.port_forward_info
InfoOf(s) == sess.heap[sess.port_forward_info[s]]

\* api_setup_tunnel.py:63  spawner.port_forward_info.update(json_body)
dict_update(ss, s, body) ==
    [ss EXCEPT !.heap[ss.port_forward_info[s]] = update(@, body)]

\* self.port_forward_info = value
assign(ss, s, value) ==
    [ss EXCEPT !.port_forward_info[s] = s, !.heap[s] = value]

\* api_setup_tunnel.py:52-66: a SetupTunnel request for spawner s is accepted
InfoReport(s) ==
    /\ sess.stop[s] = "none"
    /\ sess' = [dict_update(sess, s, SessionBody(s))
                  EXCEPT !.did[s] = @ \cup {"report"}]
    /\ UNCHANGED <<lifecycle, ssh, k8s, drv, db, now>>

\* forward.py:1429-1433: the start() of spawner s, with
\* get_ssh_during_startup() true, stores what the remote start answered
InfoAssign(s) ==
    /\ sess.stop[s] = "none"
    /\ "assign" \notin sess.did[s]
    /\ sess' = [assign(sess, s, SessionBody(s))
                  EXCEPT !.did[s] = @ \cup {"assign"}]
    /\ UNCHANGED <<lifecycle, ssh, k8s, drv, db, now>>

\* forward.py:1519-1520: the stop() of spawner s decides on its teardown
InfoStop(s) ==
    /\ sess.stop[s] = "none"
    /\ sess' = [sess EXCEPT !.stop[s] = IF DOMAIN InfoOf(s) # {}
                                        THEN "teardown" ELSE "returned"]
    /\ UNCHANGED <<lifecycle, ssh, k8s, drv, db, now>>

\* forward.py:615-623: the hub clears the state of spawner s after its stop
InfoClear(s) ==
    /\ sess.stop[s] \in {"teardown", "returned"}
    /\ sess' = [assign(sess, s, EmptyInfo) EXCEPT !.stop[s] = "cleared"]
    /\ UNCHANGED <<lifecycle, ssh, k8s, drv, db, now>>

\* The scenario of the spawners' port_forward_info: the spawners of one hub
\* process, none of them loaded from a saved state.
InitInfos ==
    /\ LifecycleIdle
    /\ ssh = [master |-> FALSE, forwards |-> 0]
    /\ k8s = 0
    /\ drv = <<>>
    /\ db = <<>>
    /\ now = 0
    /\ sess = [port_forward_info |-> [s \in Sessions |-> ClassList],
               heap |-> [id \in {ClassList} \cup Sessions |-> EmptyInfo],
               did |-> [s \in Sessions |-> {}],
               stop |-> [s \in Sessions |-> "none"]]

NextInfos ==
    \/ \E s \in Sessions : InfoReport(s)
    \/ \E s \in Sessions : InfoAssign(s)
    \/ \E s \in Sessions : InfoStop(s)
    \/ \E s \in Sessions : InfoClear(s)

SpecInfos == InitInfos /\ [][NextInfos]_vars

\* ------------------------------------------------------------ properties
Range(seq) == {seq[n] : n \in DOMAIN seq}
Occurrences(seq, x) == Cardinality({n \in DOMAIN seq : seq[n] = x})
\* stop() invocations that passed the guard / that have ended
Passed(k) == stopf[k].pc \notin {"idle", "noop"}
Ended(k) == stopf[k].pc \in {"done", "raised"}

\* C1: however many stop() calls are made, the remote stop is called once,
\* the forward removal and the service removal each run once when
\* port_forward_info was non-empty, and every call after the first returns at
\* once without effect.
C1_StopIdempotent ==
    /\ count["remote_stop"] <= 1
    /\ count["forward_remove"] <= 1
    /\ count["svc_remove"] <= 1
    /\ \A k \in StopIds :
         /\ k > 1 /\ stopf[k].pc # "idle" => stopf[k].pc = "noop"
         /\ Ended(k) /\ stopf[k].info =>
               count["forward_remove"] = 1 /\ count["svc_remove"] = 1

\* No operation is in flight: start() has not begun or has ended, no poll()
\* and no SetupTunnel request is under way, every stop() called has ended.
AtRest ==
    /\ start_pc \in {"idle", "rejected", "raised", "returned", "cancelled"}
    /\ \A i \in PollIds : poll_pc[i] = "idle"
    /\ \A i \in ReportIds : tun_pc[i] \in {"idle", "400", "204", "raised"}
    /\ \A i \in EventIds : ev_pc[i] # "in_stop"
    /\ \A k \in StopIds : stopf[k].pc \in {"idle", "noop", "done", "raised"}

\* C2: once a stop() call has completed, whichever operation is invoked next
\* (start, poll, stop, a SetupTunnel request) makes no outward call: it is
\* refused or returns at once, with no remote start or stop, no ssh forward,
\* no service creation, no forward or service removal to follow.
C2_NoEffectAfterStop ==
    [][(AtRest /\ \E k \in StopIds : stopf[k].pc = "done")
          => (AtRest' /\ count' = count)]_vars

\* C3: the start-failure path and a cancelling stop(event=...) never both
\* append a terminal event to latest_events.
C3_OneTerminalEvent ==
    ~ /\ StartFailedEvent \in Range(sp.latest_events)
      /\ \E k \in StopIds :
           /\ stopf[k].cancel
           /\ SuppliedEvent(k, stopf[k].event) \in Range(sp.latest_events)

\* C4: the post_stop_hook callable runs at most once per spawner.
C4_HookAtMostOnce == sp.hooks <= 1

\* C5: a start requested while already_stopped is set is refused by
\* run_pre_spawn_hook with an error and nothing is done: no port is
\* allocated, no remote forward and no remote start call is made.
C5_GuardedStart ==
    start_in.guarded =>
        /\ start_pc = "rejected"
        /\ start_ret = <<"raised", "run_pre_spawn_hook">>
        /\ sp.port = 0
        /\ start_in.calls = <<>>
        /\ count["remote_forward"] = 0
        /\ count["remote_start"] = 0
C5_Witness == start_in.guarded /\ start_pc = "rejected"

\* C6: a start() that fails (remote forward, remote start, ssh forward or
\* service creation) has appended exactly one terminal event of its own to
\* latest_events.
C6_FailureLeavesEvent ==
    start_pc = "raised" =>
        Occurrences(sp.latest_events, StartFailedEvent) = 1

\* C7: when a remote forward is required it is established before the remote
\* start call goes out, and when it fails the remote start call is never made.
C7_RemoteForwardFirst ==
    /\ start_in.create_remote_forward /\ "remote_start" \in Range(start_in.calls)
         => start_in.calls[1] = "remote_forward" /\ net.remote_tunnel
    /\ "remote_forward_failed" \in Range(start_in.calls)
         => /\ start_in.calls = <<"remote_forward_failed">>
            /\ count["remote_start"] = 0
            /\ start_ret = <<"raised", "remote_forward">>
C7_Witness ==
    /\ start_in.create_remote_forward
    /\ start_ret = <<"raised", "remote_forward">>
    /\ start_pc = "raised"

\* C8: a stop() call that found port_forward_info non-empty has attempted the
\* forward removal and the service removal when it ends, whether the remote
\* stop call returned or raised.
C8_TeardownAlways ==
    \A k \in StopIds :
        Ended(k) /\ stopf[k].info =>
            /\ "forward_remove" \in Range(stopf[k].calls)
            /\ "svc_remove" \in Range(stopf[k].calls)

\* C9: a stop() call that passed the guard calls the remote stop, once, and
\* only then appends the event it was given, once, whether the remote stop
\* returned or raised; a stop() given no event appends none.
C9_RemoteStopThenEvent ==
    \A k \in StopIds :
        Passed(k) =>
            LET mine == Occurrences(sp.latest_events,
                                    SuppliedEvent(k, stopf[k].event))
            IN  IF stopf[k].pc = "remote_stop"
                THEN stopf[k].calls = <<>> /\ mine = 0
                ELSE /\ stopf[k].calls[1] = "remote_stop"
                     /\ Occurrences(stopf[k].calls, "remote_stop") = 1
                     /\ mine = IF stopf[k].event = "none" THEN 0 ELSE 1
C9_Witness ==
    \E k \in StopIds :
        /\ stopf[k].pc = "raised"
        /\ stopf[k].event = "dict"
        /\ Occurrences(sp.latest_events, SuppliedEvent(k, "dict")) = 1

\* The calls start() made once the remote start had returned
AfterRemoteStart ==
    IF "remote_start" \in Range(start_in.calls)
    THEN LET n == CHOOSE m \in DOMAIN start_in.calls :
                      start_in.calls[m] = "remote_start"
         IN  SubSeq(start_in.calls, n + 1, Len(start_in.calls))
    ELSE <<>>

\* C10: a start() that returned chose its scenario in this order: with
\* get_ssh_during_startup() true it ran the ssh forward, then the service
\* creation, and returned the service's name and port, also when the response
\* carried an address; otherwise, with a non-empty address in the response,
\* it ran neither and returned that address's host and port behind the hub's
\* own scheme (https:// under internal_ssl, http:// otherwise).
C10_ModePriority ==
    start_pc = "returned" =>
        /\ start_in.ssh_during_startup =>
              /\ AfterRemoteStart = <<"ensure_forward", "publish">>
              /\ start_ret = <<"returned">> \o
                    Url(hub_proto(start_in.internal_ssl), SvcName, sp.port)
        /\ ~start_in.ssh_during_startup /\ start_in.resp # NoAddress =>
              /\ AfterRemoteStart = <<>>
              /\ start_ret = <<"returned">> \o
                    Url(hub_proto(start_in.internal_ssl),
                        start_in.resp.host, start_in.resp.port)
C10_Witness ==
    /\ start_pc = "returned"
    /\ start_in.ssh_during_startup
    /\ start_in.resp = RemoteAddress
    /\ net.tunnel /\ net.svc
\* C10 as stated: in the second scenario start() returns exactly the
\* address of the response.
C10_AddressAsIs ==
    start_pc = "returned" =>
        /\ start_in.ssh_during_startup =>
              /\ AfterRemoteStart = <<"ensure_forward", "publish">>
              /\ start_ret[3] = SvcName /\ start_ret[4] = sp.port
        /\ ~start_in.ssh_during_startup /\ start_in.resp # NoAddress =>
              /\ AfterRemoteStart = <<>>
              /\ start_ret = <<"returned">> \o AddressUrl(start_in.resp)

\* C11: a start() whose remote start answered without an address, with
\* get_ssh_during_startup() false, returns the default address built from
\* svc_name and port in that same step: no ssh forward, no service creation,
\* port_forward_info and port untouched; and start() makes no call later.
C11_WaitPassively ==
    [][/\ (/\ start_pc = "remote_start" /\ start_pc' \notin {"remote_start", "cancelled", "fail_wait"}
            /\ ~start_in'.ssh_during_startup /\ start_in'.resp = NoAddress)
          => /\ start_pc' = "returned"
             /\ start_ret' = <<"returned">> \o
                   Url(hub_proto(start_in'.internal_ssl), SvcName, sp.port)
             /\ sp'.port_forward_info = sp.port_forward_info
             /\ sp'.port = sp.port
             /\ start_in'.calls = start_in.calls
             /\ count' = count /\ net' = net
       /\ start_pc = "returned"
          => /\ start_pc' = "returned" /\ start_ret' = start_ret
             /\ start_in' = start_in]_vars
C11_Witness ==
    /\ start_pc = "returned"
    /\ ~start_in.ssh_during_startup /\ start_in.resp = NoAddress
    /\ start_ret = <<"returned">> \o
          Url(hub_proto(start_in.internal_ssl), SvcName, sp.port)
    /\ sp.port_forward_info = EmptyInfo
    /\ count["ensure_forward"] = 0 /\ count["publish"] = 0

\* start() has returned in the third scenario (no forwarding at start, no
\* address in the response).
WaitingForTunnel ==
    /\ start_pc = "returned"
    /\ ~start_in.ssh_during_startup /\ start_in.resp = NoAddress

\* C12: once start() has returned in the third scenario, the SetupTunnel
\* requests of the session make the ssh forward run at most once and the
\* service creation at most once, however many requests are delivered.
C12_TunnelSetupOnce ==
    WaitingForTunnel =>
        count["ensure_forward"] <= 1 /\ count["publish"] <= 1

\* C13: an accepted SetupTunnel request has merged its body into
\* port_forward_info and saved the state before any forward or service is
\* made, and a stop() decides on its teardown by the port_forward_info of
\* that moment, also while the tunnel setup is suspended.
C13_MergedBeforeTunnel ==
    [][/\ \A i \in ReportIds :
            tun_pc[i] = "idle" /\ tun_pc'[i] = "forward" =>
              /\ \E body \in Bodies \ {EmptyInfo} : \A key \in DOMAIN body :
                    /\ key \in DOMAIN sp'.port_forward_info
                    /\ sp'.port_forward_info[key] = body[key]
              /\ \A key \in DOMAIN sp.port_forward_info :
                    key \in DOMAIN sp'.port_forward_info
              /\ sp'.saved_info = sp'.port_forward_info
              /\ count' = count /\ net' = net
       /\ \A k \in StopIds :
            /\ stopf[k].pc \in {"remote_stop", "user_stop"}
            /\ stopf'[k].pc \in {"forward_remove", "done"}
            => (stopf'[k].pc = "forward_remove"
                  <=> sp'.port_forward_info # EmptyInfo)]_vars
C13_Witness ==
    \E k \in StopIds, i \in ReportIds :
        /\ stopf[k].pc = "forward_remove"
        /\ ~stopf[k].info
        /\ tun_pc[i] = "forward"
        /\ sp.saved_info = sp.port_forward_info

\* C14: a SetupTunnel request for a spawner on which stop() has been called
\* (already_stopped is set) or whose stop is pending is answered 400 and
\* changes nothing: port_forward_info and the saved state stay, no forward
\* and no service is made for it.
C14_RejectedWhenStopping ==
    [][\A i \in ReportIds :
          /\ tun_pc[i] = "idle" /\ tun_pc'[i] # "idle"
          /\ sp.already_stopped \/ sp.stop_pending
          => tun_pc'[i] = "400" /\ sp' = sp]_vars

\* C15: a SpawnEvents request for a spawner that is stopping
\* (already_stopped set or a stop pending) is answered 400 and appends
\* nothing; a request answered 204 for a progress event has appended it,
\* and a request answered 400 has appended nothing.
C15_EventRejectedWhenStopping ==
    [][\A i \in EventIds :
          ev_pc[i] = "idle" /\ ev_pc'[i] # "idle" =>
            /\ event_ignored(sp) =>
                  /\ ev_pc'[i] = "400"
                  /\ sp'.latest_events = sp.latest_events
            /\ ev_pc'[i] = "400" => sp'.latest_events = sp.latest_events
            /\ ev_pc'[i] = "204:appended" =>
                  sp'.latest_events =
                      Append(sp.latest_events, ReportedEvent(i, "progress"))]_vars

\* The stop() calls a SpawnEvents request has made
EventStops(i) ==
    {k \in StopIds : stopf[k].pc # "idle" /\ stopf[k].by[1] = "event"
                                          /\ stopf[k].by[2] = i}

C17_CancelEventAppended ==
    \A k \in StopIds :
        /\ stopf[k].by \in EventCallers /\ stopf[k].by[3] = "cancel"
        /\ stopf[k].pc \notin {"idle", "noop", "remote_stop"}
        => /\ CancelEvent(k) \in Range(sp.latest_events)
           /\ \A n \in DOMAIN sp.latest_events :
                 sp.latest_events[n].kind = "dict"

\* C18: when stop(cancel=True, event=...) has interrupted a start() whose
\* remote start call had not returned, the start is cancelled, and a failed
\* event with the user-cancel message that is reported later starts no
\* second stop: its stop() call, if it is made at all, returns at the guard,
\* so that no second remote stop call and no second terminal event follow.
C18_CancelThenLateReport ==
    \A k \in StopIds :
        /\ stopf[k].by = DirectCaller
        /\ stopf[k].cancel /\ stopf[k].event = "dict"
        /\ stopf[k].interrupted = "remote_start"
        => /\ start_pc = "cancelled"
           /\ \A j \in StopIds :
                 stopf[j].by \in EventCallers /\ stopf[j].by[3] = "cancel"
                    => stopf[j].pc = "noop"

\* stop() invocation k was called by poll() number i in the restart branch
\* because _poll() answered an exit status
RestartStop(k, i) == stopf[k].by = <<"poll", i, "exited">>

RestartEntered(i) ==
    /\ poll_pc[i] = "idle"
    /\ \/ poll_pc'[i] = "recreate"
       \/ \E k \in StopIds :
            /\ stopf[k].pc = "idle" /\ stopf'[k].pc # "idle"
            /\ stopf'[k].by \in PollCallers /\ stopf'[k].by[2] = i

\* start() has been called (the pre-spawn hook let it through)
StartCalled == start_pc \notin {"idle", "rejected"}

\* C20: a poll() takes the restart branch only while call_during_startup is
\* set and start() has not been called, and it clears the flag in the same
\* step; the flag is never set again. So the branch is taken at most once,
\* whichever polls and start are under way, and never once start() has been
\* called.
C20_RestartBranchOnce ==
    [][/\ \A i \in PollIds :
            RestartEntered(i) =>
               /\ sp.call_during_startup /\ ~sp'.call_during_startup
               /\ ~StartCalled
       /\ ~sp.call_during_startup => ~sp'.call_during_startup
       /\ StartCalled => ~sp'.call_during_startup]_vars

\* One poll() is in the restart branch, another one has returned what _poll()
\* answered while the first was under way, and start() has been called since.
C20_Witness ==
    \E i, j \in PollIds :
        /\ poll_pc[i] \in {"recreate", "in_stop"}
        /\ poll_pc[j] = "idle" /\ poll_ret[j] \in {"running", "exited"}
        /\ \A k \in StopIds : stopf[k].by \in PollCallers => stopf[k].by[2] = i
        /\ StartCalled

\* stop() invocation k was called by poll() number i because the tunnel
\* re-creation of the restart branch failed
RecreateStop(k, i) == stopf[k].by = <<"poll", i, "0">>

InTeardown(k) == stopf[k].pc \in {"forward_remove", "svc_remove"}

\* C24: run_ssh_forward_remove never raises: whether the forward removal
\* succeeds or fails, the service removal is attempted next, and whether that
\* one succeeds or fails, the stop() that called it returns.
C24_TeardownNeverRaises ==
    [][\A k \in StopIds :
         InTeardown(k) /\ stopf'[k] # stopf[k] =>
            IF stopf[k].pc = "forward_remove"
            THEN /\ stopf'[k].pc = "svc_remove"
                 /\ stopf'[k].calls = Append(stopf[k].calls, "forward_remove")
            ELSE /\ stopf'[k].pc = "done"
                 /\ stopf'[k].calls = Append(stopf[k].calls, "svc_remove")]_vars

\* A stop() has returned after both removals, and the forward and the service
\* are still there.
C24_Witness ==
    \E k \in StopIds :
        /\ stopf[k].pc = "done" /\ stopf[k].info
        /\ "forward_remove" \in Range(stopf[k].calls)
        /\ "svc_remove" \in Range(stopf[k].calls)
        /\ net.tunnel /\ net.svc
        /\ start_pc = "returned"

\* C29: no entry of latest_events is a function: a stop() handed a function
\* as its event calls it and appends the dict it returns.
C29_FunctionEventResolved ==
    \A n \in DOMAIN sp.latest_events : sp.latest_events[n].kind # "function"

\* The positions of start() at which the remote start call has not returned
BeforeRemoteStartReturns ==
    {"begin", "remote_forward", "start_scheduled", "remote_start"}

\* C30: a stop(cancel=True) interrupts start() only while the remote start
\* call is pending; a start() that is past it (in the start-failure wait, in
\* run_ssh_forward) is left to run.
C30_CancelOnlyWhilePending ==
    \A k \in StopIds :
        stopf[k].interrupted \in {"none"} \cup BeforeRemoteStartReturns

\* Helper call number n + 1 is of the same helper as call number n, which
\* returned
Repeated(op, n) ==
    /\ n \in 1 .. Len(drv.log) - 1
    /\ drv.log[n].op = op /\ drv.log[n].res = "returned"
    /\ drv.log[n + 1].op = op

\* C22: an ssh_default_forward call that follows one that returned returns
\* too, without a connect command, its check having found the multiplex
\* connection up; afterwards the master holds one forward for the port.
C22_ForwardTwice ==
    \A n \in 1 .. MaxCalls :
        Repeated("forward", n) =>
            /\ drv.log[n + 1].res = "returned"
            /\ drv.log[n + 1].cmds[1] = "check"
            /\ "connect" \notin Range(drv.log[n + 1].cmds)
            /\ n + 1 = Len(drv.log) /\ drv.op # "forward" =>
                  ssh.master /\ ssh.forwards = 1

\* Two ssh_default_forward calls in a row have returned, the second one
\* after its forward request was refused and the old forward cancelled.
C22_Witness ==
    \E n \in 1 .. MaxCalls :
        /\ Repeated("forward", n)
        /\ drv.log[n + 1].res = "returned"
        /\ drv.log[n + 1].cmds = <<"check", "forward", "cancel", "forward">>
        /\ ssh.forwards = 1

\* C23: ssh_default_svc creates or replaces: a call that returns leaves one
\* Service named svc_name; a call that follows one that returned returns
\* too, after create (409), delete and create; where the API refuses the
\* create for another reason the call raises after the create, with no delete.
C23_SvcCreateOrReplace ==
    \A n \in 1 .. MaxCalls :
        n <= Len(drv.log) /\ drv.log[n].op = "svc" =>
            /\ /\ drv.log[n].res = "returned"
               /\ n = Len(drv.log) /\ drv.op # "svc"
               => k8s.services = 1
            /\ Repeated("svc", n) =>
                  /\ drv.log[n + 1].res = "returned"
                  /\ drv.log[n + 1].cmds = <<"read", "create", "delete", "create">>
            /\ k8s.api = "create_denied" =>
                  /\ drv.log[n].res = "raised"
                  /\ drv.log[n].cmds = <<"read", "create">>

\* Two ssh_default_svc calls in a row have returned, the second one having
\* deleted and recreated the Service.
C23_Witness ==
    \E n \in 1 .. MaxCalls :
        /\ Repeated("svc", n)
        /\ drv.log[n].cmds = <<"read", "create">>
        /\ drv.log[n + 1].res = "returned"
        /\ "delete" \in Range(drv.log[n + 1].cmds)
        /\ k8s.services = 1

\* The groups get_state is to save: self.events with latest_events as the
\* group "latest"
Groups == Put(sp.events, "latest", sp.latest_events)

\* The step is a get_state call / one that returned a state
Saving == db'.saves = db.saves + 1
Saved == Saving /\ ~db'.raised

\* The event carries a time more than 24 hours before t
Older(event, t) == event_time_found(event) /\ t - get_event_time(event) > Day

\* Some group begins with an event that carries no time
Unparseable(groups) ==
    {key \in DOMAIN groups :
        groups[key] # <<>> /\ ~event_time_found(groups[key][1])}

\* C25: a get_state call that saves the events removes from each group the
\* events that are more than 24 hours old and no other event.
C25_PruneByAge ==
    [][Saved /\ has_events(sp) =>
         \A key \in DOMAIN Groups :
            \A n \in DOMAIN Groups[key] :
               LET event == Groups[key][n]
                   kept == /\ "events" \in DOMAIN db'.state
                           /\ key \in DOMAIN db'.state.events
                           /\ event \in Range(db'.state.events[key])
               IN  kept <=> ~Older(event, now)]_vars

\* C26: a get_state call that meets a group whose first event carries no
\* time returns a state, in which that group is as it was.
C26_UnparseableSkipped ==
    [][Saving /\ has_events(sp) =>
         \A key \in Unparseable(Groups) :
            /\ ~db'.raised
            /\ "events" \in DOMAIN db'.state
            /\ key \in DOMAIN db'.state.events
            /\ db'.state.events[key] = Groups[key]]_vars

\* C27: the state a get_state call returns holds port_forward_info, port and
\* every event of latest_events that is not more than 24 hours old, whether
\* the spawner had groups of events before or not; a new spawner that loads
\* the state has all three as they were saved.
C27_SaveLoadRoundTrip ==
    [][/\ Saved =>
            /\ db'.state.port_forward_info = sp.port_forward_info
            /\ db'.state.port = sp.port
            /\ \A n \in DOMAIN sp.latest_events :
                  ~Older(sp.latest_events[n], now) =>
                     /\ "events" \in DOMAIN db'.state
                     /\ "latest" \in DOMAIN db'.state.events
                     /\ sp.latest_events[n] \in Range(db'.state.events["latest"])
       /\ ~db.loaded /\ db'.loaded =>
            /\ sp'.port_forward_info = db.state.port_forward_info
            /\ sp'.port = db.state.port
            /\ "events" \in DOMAIN db.state =>
                  /\ "latest" \in DOMAIN db.state.events
                  /\ sp'.latest_events = db.state.events["latest"]]_vars

\* C28: every event in the latest_events of a spawner was appended for that
\* spawner.
C28_EventsPerSession ==
    \A s \in Sessions :
        \A n \in DOMAIN Snapshot(s) : Snapshot(s)[n].session = s

\* C31: a stop(cancel=True) cancels the hub's side of the spawn (cancel():
\* the hub's User.stop and the _spawn_future) without waiting for the remote
\* stop call: while that call is outstanding the hub's stop is under way.
C31_CancelBeforeRemoteStop ==
    \A k \in StopIds :
        stopf[k].cancel /\ stopf[k].pc = "remote_stop" => sp.stop_pending

\* C32: a restart poll() of a running server that re-creates the tunnel runs
\* the ssh forward only: when run_ssh_forward has returned, no Service was
\* made and the one there is as it was, and poll() returns the status of
\* _poll(); with get_ssh_recreate_at_start() false the poll returns that
\* status in the same step, with no forward and no Service made.
C32_RecreateForwardOnly ==
    [][\A i \in PollIds :
         /\ poll_pc[i] = "recreate" /\ poll_pc'[i] = "idle" /\ stopf' = stopf
            => /\ poll_ret'[i] = "running"
               /\ count' = [count EXCEPT !["ensure_forward"] = @ + 1]
               /\ net' = [net EXCEPT !.tunnel = TRUE]
               /\ sp' = sp
         /\ /\ poll_pc[i] = "idle" /\ sp.call_during_startup
            /\ poll_ret[i] # "running" /\ poll_ret'[i] = "running"
            => /\ poll_pc'[i] = "idle"
               /\ count' = count /\ net' = net /\ stopf' = stopf]_vars

\* A restart poll() has returned after the tunnel re-creation, next to the
\* Service of the old hub process, which nobody made again.
C32_Witness ==
    \E i \in PollIds :
        /\ poll_ret[i] = "running" /\ poll_pc[i] = "idle"
        /\ count["ensure_forward"] = 1 /\ count["publish"] = 0
        /\ net.tunnel /\ net.svc
        /\ start_pc = "idle"

\* The ssh_default_forward call under way, or the one that has just ended
ForwardCmds(d) ==
    IF d.pc = "idle" /\ d.log # <<>> /\ d.log[Len(d.log)].op = "forward"
    THEN d.log[Len(d.log)].cmds
    ELSE IF d.op = "forward" THEN d.cmds ELSE <<>>

RECURSIVE ConnectionPart(_)
ConnectionPart(cmds) ==
    IF cmds = <<>> \/ Head(cmds) = "forward" THEN <<>>
    ELSE <<Head(cmds)>> \o ConnectionPart(Tail(cmds))

\* C34: an ssh_default_forward call begins with a check; it issues a connect
\* only after a check that failed, and one at most; a connect that ran into
\* its timeout is followed by one more check, whose answer decides whether
\* the call goes on or raises; a forward request is only issued while the
\* multiplex connection is up.
C34_ConnectOnce ==
    [][/\ drv.pc = "check" =>
            /\ drv.cmds = <<>>
            /\ drv'.cmds = <<"check">>
            /\ drv'.pc = IF ssh.master THEN "forward" ELSE "connect"
       /\ drv.pc = "connect" => drv.cmds = <<"check">> /\ ~ssh.master
       /\ drv.pc = "recheck" =>
            /\ drv.cmds = <<"check", "connect">>
            /\ IF ssh.master
               THEN drv'.pc = "forward" /\ drv'.cmds = <<"check", "connect", "check">>
               ELSE /\ drv'.pc = "idle"
                    /\ drv'.log[Len(drv'.log)].res = "raised"
                    /\ drv'.log[Len(drv'.log)].cmds = <<"check", "connect", "check">>
       /\ drv'.pc \in {"forward", "retry"} => ssh'.master
       /\ ConnectionPart(ForwardCmds(drv')) \in
             {<<>>, <<"check">>, <<"check", "connect">>,
              <<"check", "connect", "check">>}]_vars

\* An ssh_default_forward call has returned after a check that failed, a
\* connect that ran into its timeout and a second check.
C34_Witness ==
    /\ drv.pc = "idle" /\ drv.log # <<>>
    /\ drv.log[Len(drv.log)].op = "forward"
    /\ drv.log[Len(drv.log)].res = "returned"
    /\ ConnectionPart(ForwardCmds(drv)) = <<"check", "connect", "check">>
    /\ ssh.master /\ ssh.forwards = 1

\* C35: a start() whose remote start call raised has appended its failure
\* event and, after a bounded wait for the cancel event, ends by raising the
\* exception of the remote start call.
C35_FailureDeclared ==
    (start_pc = "fail_wait")
        ~> (/\ start_pc = "raised"
            /\ start_ret = <<"raised", "remote_start">>
            /\ StartFailedEvent \in Range(sp.latest_events))

\* C36: an ssh_default_forward_remote call that has the multiplex connection
\* to the remote node up runs the start command next, and returns when the
\* command answers with its success code (217).
C36_RemoteStartIssued ==
    [][drv.pc = "remote_start" /\ ssh.master =>
          /\ drv'.pc = "idle"
          /\ drv'.log[Len(drv'.log)].cmds = Append(drv.cmds, "start")
          /\ remote_start_request(ssh)[1] = 217 =>
                /\ drv'.log[Len(drv'.log)].res = "returned"
                /\ ssh'.listening]_vars

\* C37: the port_forward_info of a spawner holds only what was reported for
\* or stored by that spawner: a spawner for which no SetupTunnel request was
\* accepted and whose start() stored nothing has an empty port_forward_info,
\* and its stop() makes no teardown.
C37_InfoPerSession ==
    \A s \in Sessions :
        /\ \A key \in DOMAIN InfoOf(s) : InfoOf(s)[key] = SessionBody(s)[key]
        /\ sess.did[s] = {} =>
              /\ InfoOf(s) = EmptyInfo
              /\ sess.stop[s] # "teardown"

\* C38: once a stop() has returned, no remote forward made by start() is
\* left: it has been removed by the stop.
C38_RemoteForwardRemoved ==
    \A k \in StopIds : stopf[k].pc = "done" => ~net.remote_tunnel

\* C39: a SetupTunnel request that was accepted before a stop() began makes
\* no forward and no Service once that stop() has run its teardown and
\* returned: whatever the interleaving, the request sets up nothing that the
\* stop can no longer remove.
C39_NoSetupAfterTeardown ==
    [][\A i \in ReportIds, k \in StopIds :
         /\ WaitingForTunnel
         /\ stopf[k].info /\ stopf[k].pc = "done"
         /\ "svc_remove" \in Range(stopf[k].calls)
         /\ tun_pc[i] \in {"forward", "svc"}
         => /\ net'.tunnel => net.tunnel
            /\ net'.svc => net.svc]_vars

\* C40: a stop(cancel=True) that found port_forward_info non-empty at its
\* guard has run the forward removal and the service removal when it
\* returns, also when clear_state() was called while it was in cancel(); and
\* every other stop() call made since has returned at the guard.
C40_TeardownDespiteClear ==
    \A k \in StopIds :
        stopf[k].cancel /\ stopf[k].info /\ stopf[k].pc = "done" =>
            /\ "forward_remove" \in Range(stopf[k].calls)
            /\ "svc_remove" \in Range(stopf[k].calls)
            /\ \A j \in StopIds \ {k} : stopf[j].pc \in {"idle", "noop"}

====
